---- MODULE Spec2Model ----
(***************************************************************************)
(* Model of assistant.py: a voice assistant that provisions a custom       *)
(* voice once, speaks a greeting, and then loops listen -> process_command *)
(* until an exit phrase is heard.  External services (HTTP, microphone,    *)
(* recognition, audio playback) are modelled by their outcomes, chosen     *)
(* nondeterministically; Python exceptions are modelled by class name and  *)
(* try/except by the handler list of each try statement.                   *)
(***************************************************************************)
EXTENDS Integers, Sequences, FiniteSets, TLC

VARIABLES
    pc,              \* position of the main thread
    ELEVENLABS_API_KEY, \* module global read from the environment
    VOICE_ID,        \* module global VOICE_ID
    voice_sample,    \* TRUE iff the file voice_sample.mp3 exists
    provision,       \* outcomes met by the one create_custom_voice() call
    provisionCalls,  \* number of create_custom_voice() calls so far
    transcript,      \* what recognize_google returned in the latest listen()
    listenOut,       \* outcomes met by the latest listen() and what it raised
    command,         \* main's variable command (return value of listen())
    should_exit,     \* main's variable should_exit
    spoken,          \* texts handed to text_to_speech by the latest process_command
    listens,         \* number of listen() calls so far
    cycleDispatches, \* process_command calls since the latest listen()
    cycleSynth,      \* text_to_speech calls since the latest listen()
    synthCalls,      \* text_to_speech calls so far
    voiceArgs,       \* every voice_id ever passed to text_to_speech
    outcome,         \* outcomes met by the latest text_to_speech call
    result,          \* what the latest text_to_speech call did
    tmpfile,         \* the NamedTemporaryFile of the latest playback
    player           \* the asynchronous playback started by the latest playsound call

vars == <<pc, ELEVENLABS_API_KEY, VOICE_ID, voice_sample, provision, provisionCalls, transcript,
          listenOut, command, should_exit, spoken, listens, cycleDispatches,
          cycleSynth, synthCalls, voiceArgs, outcome, result, tmpfile, player>>

(***************************************************************************)
(* Bounds                                                                  *)
(***************************************************************************)
MaxChunks == 2    \* an utterance is at most this many vocabulary chunks
MaxListens == 2   \* the main loop calls listen() at most this many times

(***************************************************************************)
(* Strings are sequences of one-character strings.                         *)
(***************************************************************************)
UpperCase == <<"A","B","C","D","E","F","G","H","I","J","K","L","M",
               "N","O","P","Q","R","S","T","U","V","W","X","Y","Z">>
LowerCase == <<"a","b","c","d","e","f","g","h","i","j","k","l","m",
               "n","o","p","q","r","s","t","u","v","w","x","y","z">>

Chars == { UpperCase[i] : i \in 1..Len(UpperCase) }
         \cup { LowerCase[i] : i \in 1..Len(LowerCase) } \cup { " " }

\* str.lower() on one character
LowerChar ==
    [ c \in Chars |->
        IF \E i \in 1..Len(UpperCase) : UpperCase[i] = c
        THEN LowerCase[CHOOSE i \in 1..Len(UpperCase) : UpperCase[i] = c]
        ELSE c ]

\* str.lower()
Lower(s) == [i \in 1..Len(s) |-> LowerChar[s[i]]]

\* Python's  w in s  on strings
Contains(s, w) ==
    \E i \in 1..(Len(s) - Len(w) + 1) : SubSeq(s, i, i + Len(w) - 1) = w

hello == <<"h","e","l","l","o">>
what_is_the_time == <<"w","h","a","t"," ","i","s"," ","t","h","e"," ","t","i","m","e">>
exit == <<"e","x","i","t">>
quit == <<"q","u","i","t">>
stop == <<"s","t","o","p">>

\* the four texts process_command can speak, and main's greeting
HelloText == "Hello! How can I help you?"
TimeText == "The time is %I:%M %p"
GoodbyeText == "Goodbye!"
UnknownText == "I'm sorry, I don't understand that yet."
GreetingText == "Hello, I am your custom voice assistant. How can I help you today?"

\* what the user may say: chunks that are concatenated into a transcript
\* ("ex" "it" and "QU" "it" make exit and quit; alone they match nothing)
Vocab ==
    { <<"H","e","l","L","o">>,
      stop,
      what_is_the_time,
      <<"e","x">>,
      <<"i","t">>,
      <<"Q","U">> }

RECURSIVE Utt(_)
Utt(n) ==
    IF n = 0 THEN { <<>> }
    ELSE LET shorter == Utt(n - 1)
         IN  shorter \cup { u \o c : u \in shorter, c \in Vocab }

Utterances == Utt(MaxChunks)

(***************************************************************************)
(* Exceptions: the classes the code names or the libraries raise, and      *)
(* Python's  except  matching.                                             *)
(***************************************************************************)
NoExc == "none"

Parent(cls) ==
    CASE cls = "Exception" -> "BaseException"
      [] cls = "SystemExit" -> "BaseException"
      [] cls = "OSError" -> "Exception"
      [] cls = "FileNotFoundError" -> "OSError"
      [] cls = "RequestException" -> "OSError"
      [] cls = "HTTPError" -> "RequestException"
      [] cls = "ConnectionError" -> "RequestException"
      [] cls = "ValueError" -> "Exception"
      [] cls = "JSONDecodeError" -> "ValueError"
      [] cls = "PlaysoundException" -> "Exception"
      [] cls = "NotImplementedError" -> "Exception"
      [] cls = "RuntimeError" -> "Exception"
      [] cls = "UnknownValueError" -> "Exception"
      [] cls = "RequestError" -> "Exception"
      [] cls = "TimeoutError" -> "OSError"
      [] OTHER -> "BaseException"

RECURSIVE IsInstance(_, _)
IsInstance(exc, cls) ==
    IF exc = cls THEN TRUE
    ELSE IF exc = "BaseException" THEN FALSE
    ELSE IsInstance(Parent(exc), cls)

\* what leaves a try statement whose body raised exc (or nothing) and whose
\* except clauses name the classes in handlers and do not raise themselves
Try(exc, handlers) ==
    IF exc # NoExc /\ \E h \in handlers : IsInstance(exc, h) THEN NoExc ELSE exc

\* Python None, and truthiness of a voice id
None == "<None>"
Truthy(v) == v # None /\ v # ""

(***************************************************************************)
(* Outcomes of the external calls                                          *)
(***************************************************************************)
\* requests.get / requests.post followed by raise_for_status():
\* a 2xx response, a non-2xx response, or no response at all
HttpOutcomes == { NoExc, "HTTPError", "ConnectionError" }

\* response.json() of the voices/add endpoint: a body that is not JSON, an
\* object without voice_id, or an object whose voice_id is the given value
\* (JSON null, the empty string, or an identifier)
JsonOutcomes ==
    { [kind |-> "invalid", voice_id |-> None],
      [kind |-> "object", voice_id |-> None],
      [kind |-> "voice", voice_id |-> None],
      [kind |-> "voice", voice_id |-> ""],
      [kind |-> "voice", voice_id |-> "voice_1"] }

\* playsound.playsound(tmpfile.name, block=False)
PlayOutcomes == { NoExc, "PlaysoundException", "NotImplementedError" }

\* the body of use_pyttsx3
FallbackOutcomes == { NoExc, "RuntimeError" }

\* sr.Microphone() / adjust_for_ambient_noise / recognizer.listen
MicOutcomes == { NoExc, "OSError" }

\* recognizer.recognize_google(audio)
RecognizeOutcomes == { NoExc, "UnknownValueError", "RequestError", "TimeoutError" }

\* an external call that is not reached has no outcome
Unreached == "unreached"

\* how far the playback thread has got when play_audio_from_stream leaves
\* its with block without waiting for it
PlayerProgress == { "pending", "reading" }

NoProvision == [get |-> Unreached, post |-> Unreached,
                json |-> [kind |-> Unreached, voice_id |-> None]]
NoListen == [mic |-> Unreached, rec |-> Unreached, exc |-> NoExc]
NoOutcome == [http |-> Unreached, play |-> Unreached, fb |-> Unreached]
NoResult == [exc |-> NoExc, requested |-> FALSE, reachedPlay |-> FALSE,
             playExc |-> NoExc, fallbackCalls |-> 0, started |-> FALSE]

(***************************************************************************)
(* create_custom_voice                                                     *)
(***************************************************************************)
\* the class raised inside the try body, or NoExc; exit() raises SystemExit
create_custom_voice_body(get, post, json) ==
    IF get # NoExc THEN get
    ELSE IF post # NoExc THEN post
    ELSE IF json.kind = "invalid" THEN "JSONDecodeError"
    ELSE IF json.kind = "object" THEN "SystemExit"
    ELSE NoExc

\* ret: the value returned; VOICE_ID: the global afterwards; file: whether
\* voice_sample.mp3 exists afterwards; exc: what propagates to the caller
create_custom_voice(get, post, json) ==
    LET body == create_custom_voice_body(get, post, json)
        left == Try(body, {"RequestException", "FileNotFoundError",
                           "JSONDecodeError", "Exception"})
    IN  [ ret      |-> IF body = NoExc THEN json.voice_id ELSE None,
          VOICE_ID |-> IF body = NoExc THEN json.voice_id ELSE None,
          file     |-> IF get # NoExc THEN FALSE ELSE body # NoExc,
          exc      |-> left ]

(***************************************************************************)
(* use_pyttsx3, play_audio_from_stream, text_to_speech                     *)
(***************************************************************************)
\* [mutant] use_pyttsx3 without its try statement
use_pyttsx3_NoTry(fb) == [ exc |-> fb ]

use_pyttsx3(fb) == [ exc |-> Try(fb, {"Exception"}) ]

\* An exception raised by use_pyttsx3 inside the except clause would leave
\* play_audio_from_stream: the later except clause does not guard it.
play_audio_from_stream(play, fb) ==
    IF play = NoExc
    THEN [ exc |-> NoExc, fallbackCalls |-> 0, started |-> TRUE ]
    ELSE IF IsInstance(play, "PlaysoundException")
    THEN [ exc |-> use_pyttsx3(fb).exc, fallbackCalls |-> 1, started |-> FALSE ]
    ELSE [ exc |-> Try(play, {"Exception"}), fallbackCalls |-> 0, started |-> FALSE ]

\* [mutant] text_to_speech with the request and raise_for_status() outside
\* the try statement
text_to_speech_RaiseOutsideTry(text, voice_id, http, play, fb) ==
    IF voice_id = None
    THEN NoResult
    ELSE IF http # NoExc
    THEN [ NoResult EXCEPT !.requested = TRUE, !.exc = http ]
    ELSE LET p == play_audio_from_stream(play, fb)
         IN  [ exc |-> Try(p.exc, {"RequestException", "Exception"}),
               requested |-> TRUE, reachedPlay |-> TRUE, playExc |-> p.exc,
               fallbackCalls |-> p.fallbackCalls, started |-> p.started ]

text_to_speech(text, voice_id, http, play, fb) ==
    IF voice_id = None
    THEN NoResult
    ELSE IF http # NoExc
    THEN [ NoResult EXCEPT !.requested = TRUE,
                           !.exc = Try(http, {"RequestException", "Exception"}) ]
    ELSE LET p == play_audio_from_stream(play, fb)
         IN  [ exc |-> Try(p.exc, {"RequestException", "Exception"}),
               requested |-> TRUE, reachedPlay |-> TRUE, playExc |-> p.exc,
               fallbackCalls |-> p.fallbackCalls, started |-> p.started ]

(***************************************************************************)
(* listen                                                                  *)
(***************************************************************************)
\* The with sr.Microphone() block is outside the try statement.
listen(mic, rec, heard) ==
    IF mic # NoExc
    THEN [ ret |-> <<>>, exc |-> mic ]
    ELSE IF rec = NoExc
    THEN [ ret |-> Lower(heard), exc |-> NoExc ]
    ELSE IF IsInstance(rec, "UnknownValueError") \/ IsInstance(rec, "RequestError")
    THEN [ ret |-> <<>>, exc |-> NoExc ]
    ELSE [ ret |-> <<>>, exc |-> rec ]

(***************************************************************************)
(* process_command                                                         *)
(***************************************************************************)
\* [mutant] the exit arm tested before the hello arm
Branch_ExitFirst(query) ==
    IF Contains(query, exit) \/ Contains(query, quit) \/ Contains(query, stop)
    THEN "exit"
    ELSE IF Contains(query, hello) THEN "hello"
    ELSE IF Contains(query, what_is_the_time) THEN "time"
    ELSE "else"

\* [mutant] the exit arm without its  "quit" in query  test
Branch_NoQuit(query) ==
    IF Contains(query, hello) THEN "hello"
    ELSE IF Contains(query, what_is_the_time) THEN "time"
    ELSE IF Contains(query, exit) \/ Contains(query, stop)
    THEN "exit"
    ELSE "else"

\* [mutant] the operands of  in  swapped in the exit arm
Branch_SwappedIn(query) ==
    IF Contains(query, hello) THEN "hello"
    ELSE IF Contains(query, what_is_the_time) THEN "time"
    ELSE IF Contains(exit, query) \/ Contains(quit, query) \/ Contains(stop, query)
    THEN "exit"
    ELSE "else"

\* which arm of the if / elif chain is taken
Branch(query) ==
    IF Contains(query, hello) THEN "hello"
    ELSE IF Contains(query, what_is_the_time) THEN "time"
    ELSE IF Contains(query, exit) \/ Contains(query, quit) \/ Contains(query, stop)
    THEN "exit"
    ELSE "else"

BranchText(b) ==
    CASE b = "hello" -> HelloText
      [] b = "time" -> TimeText
      [] b = "exit" -> GoodbyeText
      [] OTHER -> UnknownText

process_command(query, voice_id, http, play, fb) ==
    LET b == Branch(query)
        tts == text_to_speech(BranchText(b), voice_id, http, play, fb)
    IN  [ ret |-> (b = "exit"), spoken |-> << BranchText(b) >>,
          tts |-> tts, exc |-> tts.exc ]

(***************************************************************************)
(* The main thread                                                         *)
(***************************************************************************)
\* os.environ.get("ELEVENLABS_API_KEY"): unset, empty, or a key
KeyValues == { None, "", "key" }

Init ==
    /\ pc = "start"
    /\ ELEVENLABS_API_KEY \in KeyValues
    /\ VOICE_ID = None
    /\ voice_sample = FALSE
    /\ provision = NoProvision
    /\ provisionCalls = 0
    /\ transcript = <<>>
    /\ listenOut = NoListen
    /\ command = <<>>
    /\ should_exit = FALSE
    /\ spoken = <<>>
    /\ listens = 0
    /\ cycleDispatches = 0
    /\ cycleSynth = 0
    /\ synthCalls = 0
    /\ voiceArgs = {}
    /\ outcome = NoOutcome
    /\ result = NoResult
    /\ tmpfile = "none"
    /\ player = "idle"

\* if not ELEVENLABS_API_KEY: exit()
Startup ==
    /\ pc = "start"
    /\ pc' = IF ~Truthy(ELEVENLABS_API_KEY) THEN "exited" ELSE "provision"
    /\ UNCHANGED <<ELEVENLABS_API_KEY, VOICE_ID, voice_sample, provision,
                   provisionCalls, transcript, listenOut, command, should_exit,
                   spoken, listens, cycleDispatches, cycleSynth, synthCalls,
                   voiceArgs, outcome, result, tmpfile, player>>

\* [mutant] main without its  if not VOICE_ID: exit()  check
AfterProvision_NoCheck(v) == "greet"

\* where main goes after  VOICE_ID = create_custom_voice()  returned v
AfterProvision(v) == IF ~Truthy(v) THEN "exited" ELSE "greet"

\* if not VOICE_ID: VOICE_ID = create_custom_voice(); if not VOICE_ID: exit()
Provision ==
    /\ pc = "provision"
    /\ ~Truthy(VOICE_ID)
    /\ \E get \in HttpOutcomes :
       \E post \in (IF get = NoExc THEN HttpOutcomes ELSE {Unreached}) :
       \E json \in (IF post = NoExc THEN JsonOutcomes
                     ELSE {[kind |-> Unreached, voice_id |-> None]}) :
           LET r == create_custom_voice(get, post, json)
           IN  /\ provision' = [get |-> get, post |-> post, json |-> json]
               /\ voice_sample' = r.file
               /\ IF r.exc # NoExc
                  THEN /\ VOICE_ID' = r.VOICE_ID
                       /\ pc' = "exited"
                  ELSE /\ VOICE_ID' = r.ret
                       /\ pc' = AfterProvision(r.ret)
    /\ provisionCalls' = provisionCalls + 1
    /\ UNCHANGED <<ELEVENLABS_API_KEY, transcript, listenOut, command, should_exit,
                   spoken, listens, cycleDispatches, cycleSynth, synthCalls, voiceArgs, outcome,
                   result, tmpfile, player>>

\* the effect of one text_to_speech call on the playback state: the temporary
\* file is created inside play_audio_from_stream and deleted when its with
\* block is left, which is before play_audio_from_stream returns; tmpfile and
\* player follow the latest call only
Playback(r, progress) ==
    /\ tmpfile' = IF r.reachedPlay THEN "deleted" ELSE "none"
    /\ player' = IF r.started THEN progress ELSE "idle"

\* text_to_speech("Hello, I am your custom voice assistant. ...", VOICE_ID)
Greet ==
    /\ pc = "greet"
    /\ \E http \in HttpOutcomes :
       \E play \in (IF http = NoExc THEN PlayOutcomes ELSE {Unreached}) :
       \E fb \in (IF play = "PlaysoundException" THEN FallbackOutcomes ELSE {Unreached}) :
       \E progress \in (IF play = NoExc THEN PlayerProgress ELSE {"idle"}) :
           LET r == text_to_speech(GreetingText, VOICE_ID, http, play, fb)
           IN  /\ outcome' = [http |-> http, play |-> play, fb |-> fb]
               /\ result' = r
               /\ Playback(r, progress)
               /\ pc' = IF r.exc # NoExc THEN "crashed" ELSE "listen"
    /\ synthCalls' = synthCalls + 1
    /\ voiceArgs' = voiceArgs \cup {VOICE_ID}
    /\ UNCHANGED <<ELEVENLABS_API_KEY, VOICE_ID, voice_sample, provision, provisionCalls, transcript,
                   listenOut, command, should_exit, spoken, listens,
                   cycleDispatches, cycleSynth>>

\* [mutant] main without its  if command:  check
AfterListen_NoCheck(cmd) == "dispatch"

\* where main goes after  command = listen()  returned cmd
AfterListen(cmd) == IF cmd # <<>> THEN "dispatch" ELSE "listen"

\* command = listen()
Listen ==
    /\ pc = "listen"
    /\ listens < MaxListens
    /\ \E mic \in MicOutcomes :
       \E rec \in (IF mic = NoExc THEN RecognizeOutcomes ELSE {Unreached}) :
       \E heard \in (IF rec = NoExc THEN Utterances ELSE {<<>>}) :
           LET r == listen(mic, rec, heard)
           IN  /\ transcript' = heard
               /\ listenOut' = [mic |-> mic, rec |-> rec, exc |-> r.exc]
               /\ IF r.exc # NoExc
                  THEN /\ pc' = "crashed"
                       /\ UNCHANGED command
                  ELSE /\ command' = r.ret
                       /\ pc' = AfterListen(r.ret)
    /\ listens' = listens + 1
    /\ cycleDispatches' = 0
    /\ cycleSynth' = 0
    /\ spoken' = <<>>
    /\ UNCHANGED <<ELEVENLABS_API_KEY, VOICE_ID, voice_sample, provision, provisionCalls, should_exit,
                   synthCalls, voiceArgs, outcome, result, tmpfile, player>>

\* should_exit = process_command(command); if should_exit: break
Dispatch ==
    /\ pc = "dispatch"
    /\ \E http \in HttpOutcomes :
       \E play \in (IF http = NoExc THEN PlayOutcomes ELSE {Unreached}) :
       \E fb \in (IF play = "PlaysoundException" THEN FallbackOutcomes ELSE {Unreached}) :
       \E progress \in (IF play = NoExc THEN PlayerProgress ELSE {"idle"}) :
           LET r == process_command(command, VOICE_ID, http, play, fb)
           IN  /\ outcome' = [http |-> http, play |-> play, fb |-> fb]
               /\ result' = r.tts
               /\ spoken' = r.spoken
               /\ Playback(r.tts, progress)
               /\ IF r.exc # NoExc
                  THEN /\ pc' = "crashed"
                       /\ UNCHANGED should_exit
                  ELSE /\ should_exit' = r.ret
                       /\ pc' = IF r.ret THEN "done" ELSE "listen"
    /\ cycleDispatches' = cycleDispatches + 1
    /\ cycleSynth' = cycleSynth + 1
    /\ synthCalls' = synthCalls + 1
    /\ voiceArgs' = voiceArgs \cup {VOICE_ID}
    /\ UNCHANGED <<ELEVENLABS_API_KEY, VOICE_ID, voice_sample, provision, provisionCalls, transcript,
                   listenOut, command, listens>>

(***************************************************************************)
(* The playback started by playsound(..., block=False)                     *)
(***************************************************************************)
\* the playback opens the file it was given the name of
PlayerOpen ==
    /\ player = "pending"
    /\ player' = IF tmpfile = "exists" THEN "reading" ELSE "failed"
    /\ UNCHANGED <<pc, ELEVENLABS_API_KEY, VOICE_ID, voice_sample, provision, provisionCalls,
                   transcript, listenOut, command, should_exit, spoken, listens,
                   cycleDispatches, cycleSynth, synthCalls, voiceArgs, outcome,
                   result, tmpfile>>

\* the playback reaches the end of the audio
PlayerFinish ==
    /\ player = "reading"
    /\ player' = "done"
    /\ UNCHANGED <<pc, ELEVENLABS_API_KEY, VOICE_ID, voice_sample, provision, provisionCalls,
                   transcript, listenOut, command, should_exit, spoken, listens,
                   cycleDispatches, cycleSynth, synthCalls, voiceArgs, outcome,
                   result, tmpfile>>

Next ==
    \/ Startup
    \/ Provision
    \/ Greet
    \/ Listen
    \/ Dispatch
    \/ PlayerOpen
    \/ PlayerFinish

Spec == Init /\ [][Next]_vars

(***************************************************************************)
(* process_command on its own: called with any value listen() can return,  *)
(* the empty string included, after a successful start-up.                 *)
(***************************************************************************)
InitDispatch ==
    /\ pc = "dispatch"
    /\ ELEVENLABS_API_KEY = "key"
    /\ VOICE_ID = "voice_1"
    /\ voice_sample = FALSE
    /\ provision = [get |-> NoExc, post |-> NoExc,
                    json |-> [kind |-> "voice", voice_id |-> "voice_1"]]
    /\ provisionCalls = 1
    /\ transcript \in Utterances
    /\ listenOut = [mic |-> NoExc, rec |-> NoExc, exc |-> NoExc]
    /\ command = listen(NoExc, NoExc, transcript).ret
    /\ should_exit = FALSE
    /\ spoken = <<>>
    /\ listens = 1
    /\ cycleDispatches = 0
    /\ cycleSynth = 0
    /\ synthCalls = 1
    /\ voiceArgs = {"voice_1"}
    /\ outcome = NoOutcome
    /\ result = NoResult
    /\ tmpfile = "none"
    /\ player = "idle"

NextDispatch ==
    \/ Dispatch
    \/ PlayerOpen
    \/ PlayerFinish

SpecDispatch == InitDispatch /\ [][NextDispatch]_vars

(***************************************************************************)
(* Properties                                                              *)
(***************************************************************************)
UpperChar ==
    [ c \in Chars |->
        IF \E i \in 1..Len(LowerCase) : LowerCase[i] = c
        THEN UpperCase[CHOOSE i \in 1..Len(LowerCase) : LowerCase[i] = c]
        ELSE c ]

\* s contains the lower-case word w with each letter in either case
ContainsAnyCase(s, w) ==
    \E i \in 1..(Len(s) - Len(w) + 1) :
        \A j \in 1..Len(w) : s[i + j - 1] \in { w[j], UpperChar[w[j]] }

\* process_command has run on the command of the latest listen()
Dispatched == cycleDispatches = 1

ProvisionSucceeded ==
    /\ provision.get = NoExc
    /\ provision.post = NoExc
    /\ provision.json.kind = "voice"
    /\ Truthy(provision.json.voice_id)

\* C1: create_custom_voice runs at most once; every voice_id passed to
\* text_to_speech is set; text_to_speech is called only after a successful
\* provisioning; after a failed provisioning (a response without voice_id
\* included) the process has exited with no greeting and no listen.
C1_VoiceSetBeforeSynthesis ==
    /\ provisionCalls <= 1
    /\ \A v \in voiceArgs : Truthy(v)
    /\ synthCalls > 0 => (provisionCalls = 1 /\ ProvisionSucceeded /\ Truthy(VOICE_ID))
    /\ (provisionCalls = 1 /\ ~ProvisionSucceeded)
           => (pc = "exited" /\ synthCalls = 0 /\ listens = 0)

C1_Witness ==
    /\ provision.json.kind = "object"
    /\ pc = "exited"
    /\ synthCalls = 0

ContainsExitWord(s) ==
    \/ ContainsAnyCase(s, exit)
    \/ ContainsAnyCase(s, quit)
    \/ ContainsAnyCase(s, stop)

\* C3 as stated: whenever the utterance contains "exit", "quit" or "stop",
\* process_command returns True.
C3_Original ==
    (Dispatched /\ ContainsExitWord(transcript)) => should_exit = TRUE

\* C3 as amended: whenever the utterance contains "exit", "quit" or "stop" and
\* contains neither "hello" nor "what is the time", process_command returns
\* True and the main loop ends.
C3_ExitUnlessEarlierArm ==
    ( /\ Dispatched
      /\ ContainsExitWord(transcript)
      /\ ~ContainsAnyCase(transcript, hello)
      /\ ~ContainsAnyCase(transcript, what_is_the_time) )
        => (should_exit = TRUE /\ pc = "done")

C3_Witness ==
    /\ Dispatched
    /\ ContainsAnyCase(transcript, quit)
    /\ ~ContainsAnyCase(transcript, hello)
    /\ should_exit = TRUE
    /\ pc = "done"

\* C4: when the synthesis endpoint answers non-2xx, nothing is raised out of
\* process_command, it returns what it returns when synthesis succeeds, and
\* on False the main loop is at its next listen().
C4_SynthesisFailureContained ==
    (Dispatched /\ outcome.http = "HTTPError")
        => /\ result.exc = NoExc
           /\ pc # "crashed"
           /\ should_exit = process_command(command, VOICE_ID, NoExc, NoExc, Unreached).ret
           /\ pc = (IF should_exit THEN "done" ELSE "listen")

C4_Witness ==
    /\ Dispatched
    /\ outcome.http = "HTTPError"
    /\ should_exit = FALSE
    /\ pc = "listen"

\* C5: when playsound raises PlaysoundException, use_pyttsx3 is called exactly
\* once, and whatever playsound or use_pyttsx3 raised, nothing is raised out
\* of play_audio_from_stream.
C5_FallbackOnceNoRaise ==
    result.reachedPlay
        => /\ result.playExc = NoExc
           /\ outcome.play = "PlaysoundException" => result.fallbackCalls = 1

C5_Witness ==
    /\ result.reachedPlay
    /\ outcome.play = "PlaysoundException"
    /\ outcome.fb = "RuntimeError"
    /\ result.fallbackCalls = 1

\* C6 as stated: whatever microphone capture and recognition do, listen()
\* raises nothing and returns the lower-cased transcript on success and the
\* empty string otherwise.
C6_ListenNeverFails ==
    listens > 0
        => /\ listenOut.exc = NoExc
           /\ pc # "crashed"
           /\ command = (IF listenOut.mic = NoExc /\ listenOut.rec = NoExc
                         THEN Lower(transcript) ELSE <<>>)

\* C7 as stated: once create_custom_voice has ended, on whatever outcome,
\* voice_sample.mp3 does not exist.
C7_SampleAlwaysDeleted ==
    provisionCalls = 1 => voice_sample = FALSE

\* C8: process_command on the empty string speaks the "I don't understand"
\* response and returns False.
C8_EmptyFallsThrough ==
    (Dispatched /\ command = <<>>)
        => (should_exit = FALSE /\ spoken = << UnknownText >> /\ pc = "listen")

C8_Witness ==
    /\ Dispatched
    /\ command = <<>>
    /\ spoken = << UnknownText >>
    /\ pc = "listen"

\* C9 as stated: the temporary file is never deleted while the playback it
\* was handed to is still pending or reading it.
C9_FileOutlivesPlayback ==
    ~(tmpfile = "deleted" /\ player \in {"pending", "reading"})

\* C10: the main-loop protocol.  The greeting precedes the first listen(); a
\* listen() that returns a non-empty command is followed by exactly one
\* process_command, a listen() that returns "" by no process_command and no
\* text_to_speech before the next listen(); after process_command returns
\* False the loop is at listen() again; after it returns True there is no
\* further listen(), process_command or text_to_speech.
C10_LoopState ==
    /\ pc \in {"listen", "dispatch", "done"} => synthCalls >= 1
    /\ pc = "dispatch"
           => (command # <<>> /\ cycleDispatches = 0 /\ cycleSynth = 0)
    /\ (pc = "listen" /\ listens > 0 /\ command # <<>>)
           => (cycleDispatches = 1 /\ cycleSynth = 1 /\ should_exit = FALSE)
    /\ (pc = "listen" /\ listens > 0 /\ command = <<>>)
           => (cycleDispatches = 0 /\ cycleSynth = 0)
    /\ pc = "done" => (cycleDispatches = 1 /\ should_exit = TRUE)

C10_LoopStep ==
    /\ pc = "done"
           => (pc' = "done" /\ listens' = listens /\ synthCalls' = synthCalls
               /\ cycleDispatches' = cycleDispatches)
    /\ (pc = "dispatch" /\ pc' # "dispatch")
           => (cycleDispatches' = 1 /\ pc' = (IF should_exit' THEN "done" ELSE "listen"))
    /\ (pc = "listen" /\ listens' # listens)
           => pc' = (IF listenOut'.exc # NoExc THEN "crashed"
                     ELSE IF command' # <<>> THEN "dispatch" ELSE "listen")

C10_MainLoopProtocol == [](C10_LoopState) /\ [][C10_LoopStep]_vars

C10_Witness ==
    /\ pc = "done"
    /\ listens = 2
    /\ synthCalls = 3

====
